---- MODULE Spec2Model ----
(***************************************************************************)
(* Model of the Tailwind configuration composer of DirectorV2:             *)
(*   frontend/tailwind.config.js   requires four token modules and builds  *)
(*                                 module.exports from their tables;       *)
(*   frontend/tailwind/theme.js    (src/unnamed/part_000) token tables;    *)
(*   frontend/tailwind/safelist.js (src/unnamed/part_001) safelist array.  *)
(* frontend/tailwind/colors.js and frontend/tailwind/spacing.js are not    *)
(* part of the sources at hand: their tables are drawn from bounded sets.  *)
(*                                                                         *)
(* JavaScript values: an object is a function from property names to       *)
(* values, an array is a sequence, a property whose value is undefined is  *)
(* a name missing from the function's domain, {} is the empty function.    *)
(***************************************************************************)
EXTENDS Integers, Sequences, FiniteSets, TLC

VARIABLES
    pc,          \* "loading" | "composed" | "done" | "error"
    loaded,      \* number of require() statements of tailwind.config.js executed
    env,         \* the const bindings of tailwind.config.js (lines 2-5)
    exports,     \* module.exports of tailwind.config.js
    components,  \* what the build tool's addComponents capability received
    modules,     \* module registry: the exports object of each token module
    loader,      \* how the build's require() treats a file written with `export`
    order,       \* the order in which the require() statements run
    runs,        \* how many times tailwind.config.js has been evaluated
    prev         \* module.exports of the previous evaluation ({} when none)

vars == <<pc, loaded, env, exports, components, modules, loader, order, runs, prev>>

(***************************************************************************)
(* Bounds                                                                  *)
(***************************************************************************)
MaxColorKeys == 2     \* keys of the colors table (colors.js is not at hand)
MaxSpacingKeys == 1   \* keys of each of spacing, minWidth, maxWidth
MaxLoads == 2         \* evaluations of tailwind.config.js by the build tool

(***************************************************************************)
(* Object literals.  A literal is the sequence of its <<key, value>>       *)
(* entries as written; evaluating it keeps, for a key written twice, the   *)
(* value written last.                                                     *)
(***************************************************************************)
RECURSIVE ObjectLiteral(_)
ObjectLiteral(entries) ==
    IF entries = <<>> THEN <<>>
    ELSE LET n == Len(entries)
         IN  (entries[n][1] :> entries[n][2]) @@ ObjectLiteral(SubSeq(entries, 1, n - 1))

\* array.reverse()
Reverse(arr) == [i \in 1..Len(arr) |-> arr[Len(arr) + 1 - i]]

\* [...new Set(array)]: each value once, at its first position.
RECURSIVE Unique(_)
Unique(arr) ==
    IF arr = <<>> THEN <<>>
    ELSE LET n == Len(arr)
             front == Unique(SubSeq(arr, 1, n - 1))
         IN  IF \E i \in 1..(n - 1) : arr[i] = arr[n] THEN front ELSE Append(front, arr[n])

Keys(entries) == {entries[i][1] : i \in 1..Len(entries)}

(***************************************************************************)
(* theme.js (src/unnamed/part_000)                                         *)
(***************************************************************************)
fontFamilyLiteral ==
    << <<"primary", "Inter">>,
       <<"secondary", "Gilroy">>,
       <<"curgloria", "Gloria Hallelujah">> >>

fontSizeLiteral ==
    << <<"small", <<"8px", "12px">> >>,
       <<"overline", <<"10px", [lineHeight |-> "16px",
                                letterSpacing |-> "0.04em",
                                textTransform |-> "uppercase"]>> >>,
       <<"captionsm", <<"10px", "12px">> >>,
       <<"caption2", <<"10px", "16px">> >>,
       <<"caption18", <<"10px", "20px">> >>,
       <<"caption15", <<"12px", "14px">> >>,
       <<"caption1", <<"12px", "20px">> >>,
       <<"caption3", <<"11px", "16px">> >>,
       <<"body", <<"14px", "24px">> >>,
       <<"subheader", <<"16px", "24px">> >>,
       <<"subheader2", <<"18px", "20px">> >>,
       <<"title", <<"20px", "28px">> >>,
       <<"heading2", <<"24px", "36px">> >>,
       <<"heading1", <<"28px", "40px">> >>,
       <<"display6", <<"30px", "35px">> >>,
       <<"display5", <<"36px", "48px">> >>,
       <<"display4", <<"48px", "56px">> >>,
       <<"display3", <<"56px", "64px">> >>,
       <<"display2", <<"64px", "72px">> >>,
       <<"display1", <<"80px", "88px">> >> >>

borderRadiusLiteral ==
    << <<"2", "2px">>, <<"4", "4px">>, <<"6", "6px">>, <<"8", "8px">>,
       <<"12", "12px">>, <<"16", "16px">>, <<"20", "20px">>, <<"24", "24px">> >>

borderWidthLiteral ==
    << <<"DEFAULT", "1px">>, <<"0", "0">>, <<"2", "2px">>, <<"3", "3px">>,
       <<"4", "4px">>, <<"6", "6px">>, <<"7", "7px">>, <<"8", "8px">> >>

boxShadowLiteral ==
    << <<"none", "none">>,
       <<"1", "0px 1px 1px rgba(0, 0, 0, 0.1)">>,
       <<"2", "0px 3px 3px rgba(0, 0, 0, 0.1)">>,
       <<"3", "0px 6px 6px rgba(0, 0, 0, 0.08)">>,
       <<"4", "0px 16px 16px rgba(0, 0, 0, 0.1)">>,
       <<"5", "0px 32px 40px rgba(0, 0, 0, 0.1)">>,
       <<"spextlg", "0px 5px 20px 1px rgba(0, 2, 40, 0.1)">>,
       <<"searchbox", "0px 4px 18x 0.5x rgba(0, 2, 40, 0.1)">>,
       <<"up2", "0px -3px 3px rgba(0, 0, 0, 0.08)">>,
       <<"key", "0px 4px 16px rgba(0, 2, 40, 0.35)">>,
       <<"lg", "0px 5px 20px 1px #DBE0E9">>,
       <<"blur", "0px 0px 6px rgba(0,0,0,0.1)">>,
       <<"minimal-up", "0px -1px 5px rgba(0, 0, 0, 0.1)">>,
       <<"minimal-down", "0px 1px 5px rgba(0, 0, 0, 0.1)">> >>

variantsExtendLiteral ==
    << <<"cursor", <<"disabled">> >>,
       <<"opacity", <<"group-hover">> >>,
       <<"backgroundColor", <<"group-hover">> >>,
       <<"background", <<"group-hover", "active">> >>,
       <<"display", <<"group-hover">> >>,
       <<"border", <<"group-hover", "active">> >>,
       <<"margin", <<"group-hover">> >>,
       <<"padding", <<"group-hover">> >>,
       <<"height", <<"group-hover">> >>,
       <<"width", <<"group-hover">> >>,
       <<"transform", <<"group-hover">> >>,
       <<"scale", <<"group-hover">> >>,
       <<"rotate", <<"group-hover">> >>,
       <<"translate", <<"group-hover">> >>,
       <<"skew", <<"group-hover">> >>,
       <<"transitionProperty", <<"group-hover">> >>,
       <<"transitionDuration", <<"group-hover">> >>,
       <<"transitionTimingFunction", <<"group-hover">> >>,
       <<"transitionDelay", <<"group-hover">> >> >>

variantsLiteral == << <<"extend", ObjectLiteral(variantsExtendLiteral)>> >>

\* The exports object of theme.js: one property per `export const`.
themeExports ==
    [fontFamily   |-> ObjectLiteral(fontFamilyLiteral),
     fontSize     |-> ObjectLiteral(fontSizeLiteral),
     borderRadius |-> ObjectLiteral(borderRadiusLiteral),
     borderWidth  |-> ObjectLiteral(borderWidthLiteral),
     boxShadow    |-> ObjectLiteral(boxShadowLiteral),
     variants     |-> ObjectLiteral(variantsLiteral)]

(***************************************************************************)
(* safelist.js (src/unnamed/part_001)                                      *)
(***************************************************************************)
safelist ==
    << "my-auto",
       "text-others-doctormanhattan",
       "text-others-superman",
       "text-kilvish",
       "text-red",
       "group-hover:border-kilvish-600",
       "group-hover:bg-others-superman100",
       "group-hover:border-others-superman",
       "group-hover:bg-kilvish-100",
       "group-hover:border-kilvish",
       "group-hover:bg-red-100",
       "group-hover:border-red",
       "group-hover:border-kilvish-600",
       "group-hover:border-others-doctormanhattan",
       "group-hover:bg-others-doctormanhattan-100",
       "max-h-288",
       "max-h-182" >>

safelistExports == [safelist |-> safelist]

(***************************************************************************)
(* colors.js and spacing.js: token tables with unique keys, contents       *)
(* unknown.  Every table over the first keys of a pool is a candidate.     *)
(***************************************************************************)
ColorKeyPool == <<"red", "kilvish", "others", "white">>
ColorValues == {"#E5383B", "#6E62E5"}
SpacingKeyPool == <<"1", "2", "4", "288">>
SpacingValues == {"18rem"}

FirstKeys(pool, n) == {pool[i] : i \in 1..(IF n < Len(pool) THEN n ELSE Len(pool))}

Tables(keys, values) == UNION {[ks -> values] : ks \in SUBSET keys}

ColorsExports ==
    {[colors |-> c] : c \in Tables(FirstKeys(ColorKeyPool, MaxColorKeys), ColorValues)}

SpacingExports ==
    LET T == Tables(FirstKeys(SpacingKeyPool, MaxSpacingKeys), SpacingValues)
    IN  {[spacing |-> s, minWidth |-> lo, maxWidth |-> hi] : s \in T, lo \in T, hi \in T}

(***************************************************************************)
(* tailwind.config.js, lines 2-5: the require() statements                 *)
(***************************************************************************)
SourceOrder == <<"colors", "spacing", "theme", "safelist">>

\* The names each statement destructures from the module it requires.
Destructured ==
    [colors   |-> {"colors"},
     spacing  |-> {"spacing", "minWidth", "maxWidth"},
     theme    |-> {"fontFamily", "fontSize", "borderRadius", "borderWidth",
                   "boxShadow", "variants"},
     safelist |-> {"safelist"}]

\* The token modules written with `export const` (ECMAScript module syntax),
\* which tailwind.config.js loads with the CommonJS require().
EsmSyntax == {"theme", "safelist"}

\* What require() can do with such a file depends on the build: a plain
\* CommonJS loader throws a SyntaxError on `export`, a loader with ESM
\* interoperation (a transpiling loader, a runtime with require(esm)) loads it.
Loaders == {"commonjs", "interop"}

CanLoad(m, l) == m \notin EsmSyntax \/ l = "interop"

\* const { a, b } = obj: each name is bound to obj's property of that name; a
\* name obj does not have is bound to undefined.
Destructure(obj, names) == [n \in names \cap DOMAIN obj |-> obj[n]]

\* A faulty Bind: each statement starts a fresh set of bindings.
BindReplacing(e, bindings) == bindings

\* The bindings after one more require() statement.
Bind(e, bindings) == bindings @@ e

(***************************************************************************)
(* tailwind.config.js, lines 7-58: module.exports                          *)
(***************************************************************************)
content == <<"./src/**/*.{html,js,vue, ts}">>

corePlugins == [container |-> FALSE]

\* plugins holds one function, named here by what it emits.
plugins == <<"container">>

\* { a, b }: shorthand properties, each holding the binding of that name.
Shorthand(e, names) == [n \in names \cap DOMAIN e |-> e[n]]

\* Faulty ThemeNames: boxShadow left out; spacing set directly in theme too.
ThemeNamesWithoutBoxShadow == {"fontFamily", "minWidth", "maxWidth"}
ThemeNamesWithSpacing == {"fontFamily", "minWidth", "maxWidth", "boxShadow", "spacing"}

ThemeNames == {"fontFamily", "minWidth", "maxWidth", "boxShadow"}
\* A faulty ExtendNames: borderWidth left out of extend.
ExtendNamesWithoutBorderWidth == {"fontSize", "spacing", "borderRadius", "colors"}

ExtendNames == {"fontSize", "spacing", "borderRadius", "borderWidth", "colors"}

\* A faulty ComposeTheme: extend.borderRadius set from the borderWidth binding.
ComposeThemeRadiusFromWidth(e) ==
    [extend |-> Shorthand(e, ExtendNames \ {"borderRadius"})
                @@ [n \in {"borderRadius"} \cap DOMAIN e |-> e["borderWidth"]]]
    @@ Shorthand(e, ThemeNames)

ComposeTheme(e) ==
    [extend |-> Shorthand(e, ExtendNames)] @@ Shorthand(e, ThemeNames)

\* A faulty ComposeConfig: options.safelist holds each safelist string once.
ComposeConfigUniqueSafelist(e) ==
    [content     |-> content,
     options     |-> [n \in {"safelist"} \cap DOMAIN e |-> Unique(e[n])],
     enabled     |-> TRUE,
     theme       |-> ComposeTheme(e),
     corePlugins |-> corePlugins,
     plugins     |-> plugins]
    @@ Shorthand(e, {"variants"})

ComposeConfig(e) ==
    [content     |-> content,
     options     |-> Shorthand(e, {"safelist"}),
     enabled     |-> TRUE,
     theme       |-> ComposeTheme(e),
     corePlugins |-> corePlugins,
     plugins     |-> plugins]
    @@ Shorthand(e, {"variants"})

(***************************************************************************)
(* tailwind.config.js, lines 31-56: the plugin callback                    *)
(***************************************************************************)
\* The declarations of ".container" outside its @screen blocks.
containerBase ==
    [maxWidth     |-> "100%",
     paddingLeft  |-> "20px",
     paddingRight |-> "20px",
     marginLeft   |-> "auto",
     marginRight  |-> "auto"]

\* A faulty containerScreens: the lg block declares no padding.
containerScreensWithoutLgPadding ==
    << <<"sm", [maxWidth |-> "600px"]>>,
       <<"md", [maxWidth |-> "700px"]>>,
       <<"lg", [maxWidth |-> "1280px"]>>,
       <<"xl", [maxWidth |-> "1344px"]>> >>

\* The @screen blocks of ".container", in the order written.
containerScreens ==
    << <<"sm", [maxWidth |-> "600px"]>>,
       <<"md", [maxWidth |-> "700px"]>>,
       <<"lg", [maxWidth |-> "1280px", paddingLeft |-> "56px", paddingRight |-> "56px"]>>,
       <<"xl", [maxWidth |-> "1344px"]>> >>

containerRule == [base |-> containerBase, screens |-> containerScreens]

\* addComponents({ ".container": {...} }): one call with one rule.
PluginCalls(received) ==
    Append(received, [selector |-> ".container", rule |-> containerRule])

\* The value of a declaration at a breakpoint.  theme sets no screens, so every
\* @screen block is a min-width query and the blocks apply in the order written:
\* at a breakpoint the value is the one of the last block up to it that declares
\* the property, the base declaration when none does.
RECURSIVE ValueAt(_, _, _)
ValueAt(rule, k, prop) ==
    IF k = 0 THEN rule.base[prop]
    ELSE IF prop \in DOMAIN rule.screens[k][2] THEN rule.screens[k][2][prop]
    ELSE ValueAt(rule, k - 1, prop)

(***************************************************************************)
(* State machine                                                           *)
(***************************************************************************)
InitCommon ==
    /\ pc = "loading"
    /\ loaded = 0
    /\ env = <<>>
    /\ exports = <<>>
    /\ components = <<>>
    /\ runs = 1
    /\ prev = <<>>
    /\ loader \in Loaders
    /\ \E c \in ColorsExports, s \in SpacingExports :
          modules = [colors |-> c, spacing |-> s,
                     theme |-> themeExports, safelist |-> safelistExports]

Init == InitCommon /\ order = SourceOrder

\* One require() statement: the module is loaded and its names are bound.
Require ==
    /\ pc = "loading"
    /\ loaded < Len(order)
    /\ CanLoad(order[loaded + 1], loader)
    /\ env' = Bind(env, Destructure(modules[order[loaded + 1]], Destructured[order[loaded + 1]]))
    /\ loaded' = loaded + 1
    /\ UNCHANGED <<pc, exports, components, modules, loader, order, runs, prev>>

\* require() throws: the evaluation of tailwind.config.js ends with the error.
RequireThrows ==
    /\ pc = "loading"
    /\ loaded < Len(order)
    /\ ~CanLoad(order[loaded + 1], loader)
    /\ pc' = "error"
    /\ UNCHANGED <<loaded, env, exports, components, modules, loader, order, runs, prev>>

\* A faulty Compose: the safelist array of safelist.js is reversed in place
\* (array.reverse()) while the record is built.
ComposeReversingSafelist ==
    /\ pc = "loading"
    /\ loaded = Len(order)
    /\ exports' = [ComposeConfig(env) EXCEPT !.options.safelist = Reverse(@)]
    /\ modules' = [modules EXCEPT !.safelist.safelist = Reverse(@)]
    /\ pc' = "composed"
    /\ UNCHANGED <<loaded, env, components, loader, order, runs, prev>>

\* module.exports = { ... }
Compose ==
    /\ pc = "loading"
    /\ loaded = Len(order)
    /\ exports' = ComposeConfig(env)
    /\ pc' = "composed"
    /\ UNCHANGED <<loaded, env, components, modules, loader, order, runs, prev>>

\* The build tool calls the function in plugins with its addComponents.
InvokePlugin ==
    /\ pc = "composed"
    /\ components' = PluginCalls(components)
    /\ pc' = "done"
    /\ UNCHANGED <<loaded, env, exports, modules, loader, order, runs, prev>>

\* The build tool evaluates tailwind.config.js again (a second build).
Reload ==
    /\ pc = "done"
    /\ runs < MaxLoads
    /\ runs' = runs + 1
    /\ prev' = exports
    /\ pc' = "loading"
    /\ loaded' = 0
    /\ env' = <<>>
    /\ exports' = <<>>
    /\ components' = <<>>
    /\ UNCHANGED <<modules, loader, order>>

Next == Require \/ RequireThrows \/ Compose \/ InvokePlugin \/ Reload

\* Every order in which the four require() statements can be written.
LoadOrders ==
    {o \in [1..Len(SourceOrder) -> DOMAIN Destructured] :
        \A i, j \in 1..Len(SourceOrder) : o[i] = o[j] => i = j}

InitReordered == InitCommon /\ order \in LoadOrders

SpecReordered == InitReordered /\ [][Next]_vars

Spec == Init /\ [][Next]_vars

(***************************************************************************)
(* Properties                                                              *)
(***************************************************************************)
IsComposed == pc \in {"composed", "done"}

\* obj.name, {} when obj has no such property.
Get(obj, name) == IF name \in DOMAIN obj THEN obj[name] ELSE <<>>

\* Where the composed record holds each token category.
ComposedTable(name) ==
    CASE name \in {"fontFamily", "minWidth", "maxWidth", "boxShadow"} ->
            Get(Get(exports, "theme"), name)
      [] name \in {"fontSize", "spacing", "borderRadius", "borderWidth", "colors"} ->
            Get(Get(Get(exports, "theme"), "extend"), name)
      [] name = "variants" -> Get(exports, "variants")

\* The tables of theme.js as written.
ThemeTables == {"fontFamily", "fontSize", "borderRadius", "borderWidth", "boxShadow", "variants"}

Literal(name) ==
    CASE name = "fontFamily"   -> fontFamilyLiteral
      [] name = "fontSize"     -> fontSizeLiteral
      [] name = "borderRadius" -> borderRadiusLiteral
      [] name = "borderWidth"  -> borderWidthLiteral
      [] name = "boxShadow"    -> boxShadowLiteral
      [] name = "variants"     -> variantsLiteral

\* The tables of colors.js and spacing.js as their modules export them.
SourceTable(name) ==
    IF name = "colors" THEN modules.colors.colors ELSE modules.spacing[name]

UnknownTables == {"colors", "spacing", "minWidth", "maxWidth"}

\* C1 (completeness): once the record is composed, every key written in a table
\* of theme.js (fontFamily, fontSize, borderRadius, borderWidth, boxShadow,
\* variants and its extend table) and every key of the colors, spacing, minWidth
\* and maxWidth tables is a key of the composed record's table of that category.
C1_Completeness ==
    IsComposed =>
        /\ \A name \in ThemeTables : Keys(Literal(name)) \subseteq DOMAIN ComposedTable(name)
        /\ Keys(variantsExtendLiteral) \subseteq DOMAIN Get(ComposedTable("variants"), "extend")
        /\ \A name \in UnknownTables : DOMAIN SourceTable(name) \subseteq DOMAIN ComposedTable(name)

C1_Witness ==
    /\ pc = "composed"
    /\ DOMAIN ComposedTable("colors") = {"red", "kilvish"}
    /\ DOMAIN ComposedTable("spacing") = {"1"}
    /\ "minimal-up" \in DOMAIN ComposedTable("boxShadow")
    /\ "DEFAULT" \in DOMAIN ComposedTable("borderWidth")

\* C2 (verbatim values): once the record is composed, the value at every key of
\* every table equals the value written for that key in the source; fontSize.body
\* is <<"14px", "24px">> and the variant extensions hold cursor: <<"disabled">>.
C2_Verbatim ==
    IsComposed =>
        /\ \A name \in ThemeTables : \A i \in 1..Len(Literal(name)) :
              /\ Literal(name)[i][1] \in DOMAIN ComposedTable(name)
              /\ ComposedTable(name)[Literal(name)[i][1]] = Literal(name)[i][2]
        /\ \A i \in 1..Len(variantsExtendLiteral) :
              /\ variantsExtendLiteral[i][1] \in DOMAIN Get(ComposedTable("variants"), "extend")
              /\ ComposedTable("variants").extend[variantsExtendLiteral[i][1]]
                    = variantsExtendLiteral[i][2]
        /\ \A name \in UnknownTables : \A k \in DOMAIN SourceTable(name) :
              /\ k \in DOMAIN ComposedTable(name)
              /\ ComposedTable(name)[k] = SourceTable(name)[k]
        /\ Get(ComposedTable("fontSize"), "body") = <<"14px", "24px">>
        /\ Get(Get(ComposedTable("variants"), "extend"), "cursor") = <<"disabled">>

C2_Witness ==
    /\ pc = "done"
    /\ Get(ComposedTable("fontSize"), "body") = <<"14px", "24px">>
    /\ Get(ComposedTable("colors"), "red") = "#E5383B"
    /\ Get(ComposedTable("colors"), "kilvish") = "#6E62E5"
    /\ Get(ComposedTable("maxWidth"), "1") = "18rem"
    /\ DOMAIN ComposedTable("minWidth") = {}

\* C3 (safelist): once the record is composed, options.safelist is the sequence
\* written in safelist.js: the same 17 strings in the same order, the string
\* written twice (entries 6 and 13) twice.
C3_SafelistKept ==
    IsComposed =>
        /\ "safelist" \in DOMAIN Get(exports, "options")
        /\ exports.options.safelist = safelist

C3_Witness ==
    /\ pc = "composed"
    /\ Len(exports.options.safelist) = 17
    /\ exports.options.safelist[6] = "group-hover:border-kilvish-600"
    /\ exports.options.safelist[13] = exports.options.safelist[6]

RECURSIVE EnvAfter(_, _, _)
EnvAfter(mods, ord, k) ==
    IF k = 0 THEN <<>>
    ELSE Bind(EnvAfter(mods, ord, k - 1), Destructure(mods[ord[k]], Destructured[ord[k]]))

\* C5 (order independence): in whatever order the four require() statements
\* run, the record composed is the one composed when they run in the order
\* written in tailwind.config.js (colors, spacing, theme, safelist).
C5_OrderIndependent ==
    IsComposed => exports = ComposeConfig(EnvAfter(modules, SourceOrder, Len(SourceOrder)))

C5_Witness ==
    /\ pc = "composed"
    /\ order = <<"safelist", "theme", "spacing", "colors">>
    /\ DOMAIN ComposedTable("colors") = {"red", "kilvish"}
    /\ "safelist" \in DOMAIN exports.options

SchemaNames ==
    {"fontFamily", "fontSize", "spacing", "minWidth", "maxWidth", "borderRadius",
     "borderWidth", "boxShadow", "colors", "variants", "safelist", "corePlugins", "plugins"}

\* C6 as stated: each of the thirteen schema names is a field of the composed
\* record itself.
C6_FlatSchema == IsComposed => SchemaNames \subseteq DOMAIN exports

\* C6 (schema, amended): of the thirteen schema names, variants, corePlugins and
\* plugins are fields of the composed record; fontFamily, minWidth, maxWidth and
\* boxShadow are fields of its theme; fontSize, spacing, borderRadius, borderWidth
\* and colors are fields of theme.extend; safelist is a field of options; the
\* variant extensions are variants.extend.  None of the other ten is a field of
\* the record itself.
C6_NestedSchema ==
    IsComposed =>
        /\ DOMAIN exports \cap SchemaNames = {"variants", "corePlugins", "plugins"}
        /\ {"fontFamily", "minWidth", "maxWidth", "boxShadow"} \subseteq DOMAIN Get(exports, "theme")
        /\ {"fontSize", "spacing", "borderRadius", "borderWidth", "colors"}
              \subseteq DOMAIN Get(Get(exports, "theme"), "extend")
        /\ "safelist" \in DOMAIN Get(exports, "options")
        /\ "extend" \in DOMAIN Get(exports, "variants")

C6_Witness ==
    /\ pc = "composed"
    /\ "fontFamily" \notin DOMAIN exports
    /\ "fontFamily" \in DOMAIN exports.theme
    /\ "safelist" \notin DOMAIN exports
    /\ "colors" \in DOMAIN exports.theme.extend

C8_CannotFail ==
    /\ pc # "error"
    /\ IsComposed =>
          /\ {"fontFamily", "minWidth", "maxWidth", "boxShadow"} \subseteq DOMAIN exports.theme
          /\ {"fontSize", "spacing", "borderRadius", "borderWidth", "colors"}
                \subseteq DOMAIN exports.theme.extend
          /\ "safelist" \in DOMAIN exports.options
          /\ "variants" \in DOMAIN exports

\* C9 as stated: the content glob of the composed record is the pattern
\* ./src/**/*.{html,js,vue,ts}.
C9_ContentGlob ==
    IsComposed => Get(exports, "content") = <<"./src/**/*.{html,js,vue,ts}">>

\* The number of names bound by the first k require() statements.
RECURSIVE BoundBy(_, _)
BoundBy(ord, k) ==
    IF k = 0 THEN 0 ELSE Cardinality(Destructured[ord[k]]) + BoundBy(ord, k - 1)

\* C10 (one value per category): no key is written twice in a table of theme.js;
\* no two modules export, and no two require() statements bind, the same name;
\* no require() statement rebinds a name bound before it; and in the composed
\* record no category is a field both of theme and of theme.extend.
C10_OneValuePerCategory ==
    /\ \A name \in ThemeTables : Cardinality(Keys(Literal(name))) = Len(Literal(name))
    /\ Cardinality(Keys(variantsExtendLiteral)) = Len(variantsExtendLiteral)
    /\ \A m1, m2 \in DOMAIN modules :
          m1 # m2 => /\ DOMAIN modules[m1] \cap DOMAIN modules[m2] = {}
                     /\ Destructured[m1] \cap Destructured[m2] = {}
    /\ Cardinality(DOMAIN env) = BoundBy(order, loaded)
    /\ IsComposed =>
          (DOMAIN Get(exports, "theme") \ {"extend"})
              \cap DOMAIN Get(Get(exports, "theme"), "extend") = {}

C10_Witness ==
    /\ pc = "composed"
    /\ Cardinality(DOMAIN env) = 11
    /\ Cardinality(DOMAIN exports.theme) = 5
    /\ Cardinality(DOMAIN exports.theme.extend) = 5
    /\ DOMAIN ComposedTable("colors") = {"red", "kilvish"}

====
